---- MODULE Spec2Model ----
(***************************************************************************)
(* Model of the note querying engine of the notes organizer                *)
(* (src/notes_frontend/src/utils/notes.js): parseSearchQuery,              *)
(* toHighlightedSegments, filterNotes and sortNotesByUpdatedAtDesc, and of *)
(* the note lifecycle functions createEmptyNote and updateNoteTimestamps,  *)
(* of the API client (src/notes_frontend/src/api/notesApi.js, NotesApi)    *)
(* and of the App component that ties them together.                       *)
(*                                                                         *)
(* A JavaScript string is a sequence of one-character strings.  null is    *)
(* the value Null; a property an object does not have is a field missing   *)
(* from the record's DOMAIN.                                               *)
(***************************************************************************)
EXTENDS Integers, Sequences, FiniteSets, TLC

VARIABLES
    pc,             \* "ready" before the function under study is called, "done" after
    query,          \* the search box input handed to parseSearchQuery / filterNotes
    parsed,         \* the {text, tag} object returned by parseSearchQuery
    text,           \* the text handed to toHighlightedSegments
    needle,         \* the needle handed to toHighlightedSegments
    segments,       \* the segment array returned by toHighlightedSegments
    notes,          \* the note array handed to filterNotes / sortNotesByUpdatedAtDesc
    activeTag,      \* the chip selector handed to filterNotes
    filtered,       \* the array returned by filterNotes
    sorted,         \* the array returned by sortNotesByUpdatedAtDesc
    dateParseZero,  \* what Date.parse(0) yields on this engine (implementation-defined)
    clock,          \* the system clock: what Date.now() / new Date() read
    made,           \* the notes createEmptyNote returned, each in its latest version
    hist,           \* per made note: its id and createdAt at creation, instant of its last touch
    call,           \* the last lifecycle call: function, input, input afterwards, output, clock span
    env,            \* process.env: REACT_APP_API_BASE and REACT_APP_BACKEND_URL
    app,            \* the state and refs of the App component
    pending,        \* the API requests in flight
    log             \* the last API client call / what happened since the user's last edit

vars == <<pc, query, parsed, text, needle, segments, notes, activeTag,
          filtered, sorted, dateParseZero, clock, made, hist, call,
          env, app, pending, log>>

\* the variables of the App component and its API client
appVars == <<env, app, pending, log>>

\* the variables of the note lifecycle
lifecycleVars == <<clock, made, hist, call>>

\* the variables of the querying engine
engineVars == <<pc, query, parsed, text, needle, segments, notes, activeTag,
                filtered, sorted, dateParseZero>>

----------------------------------------------------------------------------
(* Bounds of the explored input space.                                     *)

MaxTokens == 5      \* fragments per search-box input
MaxTextLen == 4     \* characters of a text to highlight
MaxNeedleLen == 2   \* characters of a needle
MaxNotes == 3       \* notes of a collection to sort
MaxFilterNotes == 2 \* notes of a collection to filter
MaxFilterTokens == 2 \* fragments per search-box input when filtering
MaxClock == 3        \* instants the system clock runs through
MaxMade == 2         \* notes createEmptyNote is called for
MaxUrlTokens == 3    \* fragments per REACT_APP_API_BASE value
MaxAppSteps == 3     \* events, timers and completions of one App session

----------------------------------------------------------------------------
(* Characters and strings.                                                 *)

Null == <<"null">>          \* JavaScript null (no string is a 4-letter character)

\* String.prototype.toLowerCase on one character
LowerChar(c) ==
    CASE c = "A" -> "a"
      [] c = "B" -> "b"
      [] c = "G" -> "g"
      [] c = "T" -> "t"
      [] OTHER -> c

\* \s of a regular expression, and the characters String.prototype.trim strips
IsSpace(c) == c \in {" ", "\n", "\t"}

\* \w of a regular expression: [A-Za-z0-9_]
IsWord(c) == c \in {"a", "b", "g", "t", "x", "A", "B", "G", "T", "_", "0"}

ToLowerCase(s) == [i \in 1..Len(s) |-> LowerChar(s[i])]

\* s.slice(from, to) with 0-based, end-exclusive JavaScript indices
Slice(s, from, to) == IF to <= from THEN <<>> ELSE SubSeq(s, from + 1, to)

RECURSIVE TrimStart(_)
TrimStart(s) ==
    IF s # <<>> /\ IsSpace(Head(s)) THEN TrimStart(Tail(s)) ELSE s

RECURSIVE TrimEnd(_)
TrimEnd(s) ==
    IF s # <<>> /\ IsSpace(s[Len(s)]) THEN TrimEnd(SubSeq(s, 1, Len(s) - 1)) ELSE s

\* String.prototype.trim
Trim(s) == TrimEnd(TrimStart(s))

\* s.replace(/\s+/g, " "): every maximal run of whitespace becomes one space
RECURSIVE CollapseSpaces(_)
CollapseSpaces(s) ==
    IF s = <<>> THEN <<>>
    ELSE IF IsSpace(Head(s))
         THEN <<" ">> \o CollapseSpaces(TrimStart(s))
         ELSE <<Head(s)>> \o CollapseSpaces(Tail(s))

\* s.startsWith(p, at) with a 0-based position
StartsWithAt(s, p, at) ==
    /\ at + Len(p) <= Len(s)
    /\ \A k \in 1..Len(p) : s[at + k] = p[k]

\* s.indexOf(p): the 0-based position of the first occurrence, -1 when there is none
IndexOf(s, p) ==
    LET hits == {i \in 0..Len(s) : StartsWithAt(s, p, i)}
    IN  IF hits = {} THEN -1 ELSE CHOOSE i \in hits : \A j \in hits : i <= j

\* s.includes(p)
Includes(s, p) == IndexOf(s, p) # -1

\* the concatenation of a sequence of strings
RECURSIVE Flatten(_)
Flatten(ss) == IF ss = <<>> THEN <<>> ELSE Head(ss) \o Flatten(Tail(ss))

----------------------------------------------------------------------------
(* parseSearchQuery                                                        *)

TagKeyword == <<"t", "a", "g", ":">>

\* the first position >= from (0-based) that holds no whitespace; Len(s) if none
RECURSIVE SkipSpaces(_, _)
SkipSpaces(s, from) ==
    IF from < Len(s) /\ IsSpace(s[from + 1]) THEN SkipSpaces(s, from + 1) ELSE from

\* the end (exclusive) of the maximal run of non-whitespace starting at from
RECURSIVE SkipNonSpaces(_, _)
SkipNonSpaces(s, from) ==
    IF from < Len(s) /\ ~IsSpace(s[from + 1]) THEN SkipNonSpaces(s, from + 1) ELSE from

\* the end (exclusive) of the maximal run of characters other than '"' starting at from
RECURSIVE SkipNonQuotes(_, _)
SkipNonQuotes(s, from) ==
    IF from < Len(s) /\ s[from + 1] # "\"" THEN SkipNonQuotes(s, from + 1) ELSE from

\* \b at position i: exactly one of the characters around i is a word character
WordBoundary(s, i) ==
    LET before == i > 0 /\ IsWord(s[i])
        after  == i < Len(s) /\ IsWord(s[i + 1])
    IN  before # after

\* One attempt of /\btag:\s*(?:"([^"]+)"|([^\s]+))/i at position i.
\* The result is [ok, index, end, g1, g2]: the match is s.slice(index, end),
\* g1 and g2 are the capture groups (Null when the group did not take part).
\* \s* is greedy and giving whitespace back never helps either alternative,
\* since both start with a character that is no whitespace.
TagMatchAt(s, i) ==
    LET j  == SkipSpaces(s, i + 4)
        k  == SkipNonQuotes(s, j + 1)
        e2 == SkipNonSpaces(s, j)
        keyword == /\ WordBoundary(s, i)
                   /\ i + 4 <= Len(s)
                   /\ ToLowerCase(Slice(s, i, i + 4)) = TagKeyword
        quoted == /\ j < Len(s) /\ s[j + 1] = "\""
                  /\ k > j + 1
                  /\ k < Len(s) /\ s[k + 1] = "\""
    IN  IF ~keyword THEN [ok |-> FALSE, index |-> i, end |-> i, g1 |-> Null, g2 |-> Null]
        ELSE IF quoted
             THEN [ok |-> TRUE, index |-> i, end |-> k + 1,
                   g1 |-> Slice(s, j + 1, k), g2 |-> Null]
        ELSE IF e2 > j
             THEN [ok |-> TRUE, index |-> i, end |-> e2,
                   g1 |-> Null, g2 |-> Slice(s, j, e2)]
        ELSE [ok |-> FALSE, index |-> i, end |-> i, g1 |-> Null, g2 |-> Null]

\* raw.match(re): the leftmost position at which the expression matches
TagMatch(s) ==
    LET hits == {i \in 0..Len(s) : TagMatchAt(s, i).ok}
    IN  IF hits = {} THEN [ok |-> FALSE, index |-> 0, end |-> 0, g1 |-> Null, g2 |-> Null]
        ELSE TagMatchAt(s, CHOOSE i \in hits : \A j \in hits : i <= j)

\* a variant that replaces every occurrence of the pattern (replaceAll)
RECURSIVE ReplaceFirst_All(_, _, _)
ReplaceFirst_All(s, p, by) ==
    LET at == IndexOf(s, p)
    IN  IF at = -1 \/ p = <<>> THEN s
        ELSE Slice(s, 0, at) \o by
                \o ReplaceFirst_All(Slice(s, at + Len(p), Len(s)), p, by)

\* raw.replace(pattern, " ") with a string pattern: the first occurrence of the
\* pattern in raw, wherever it is, is replaced by one space
ReplaceFirst(s, p, by) ==
    LET at == IndexOf(s, p)
    IN  IF at = -1 THEN s
        ELSE Slice(s, 0, at) \o by \o Slice(s, at + Len(p), Len(s))

\* m[1] || m[2] || ""
TagCapture(m) ==
    IF m.g1 # Null /\ m.g1 # <<>> THEN m.g1
    ELSE IF m.g2 # Null /\ m.g2 # <<>> THEN m.g2
    ELSE <<>>

\* a variant without the .replace(/\s+/g, " ") on the remaining text
parseSearchQuery_NoCollapse(q) ==
    LET raw == Trim(IF q = Null THEN <<>> ELSE q)
        m == TagMatch(raw)
        tagValue == IF m.ok THEN Trim(TagCapture(m)) ELSE <<>>
        m0 == Slice(raw, m.index, m.end)
    IN  IF raw = <<>> THEN [text |-> <<>>, tag |-> Null]
        ELSE [text |-> IF m.ok THEN Trim(ReplaceFirst(raw, m0, <<" ">>)) ELSE raw,
              tag |-> IF tagValue # <<>> THEN tagValue ELSE Null]

\* a variant that collapses whitespace whether or not a clause was found
parseSearchQuery_AlwaysCollapse(q) ==
    LET raw == Trim(IF q = Null THEN <<>> ELSE q)
        m == TagMatch(raw)
        tagValue == IF m.ok THEN Trim(TagCapture(m)) ELSE <<>>
        m0 == Slice(raw, m.index, m.end)
    IN  IF raw = <<>> THEN [text |-> <<>>, tag |-> Null]
        ELSE [text |-> Trim(CollapseSpaces(IF m.ok THEN ReplaceFirst(raw, m0, <<" ">>)
                                           ELSE raw)),
              tag |-> IF tagValue # <<>> THEN tagValue ELSE Null]

\* a variant that lower-cases the tag it returns
parseSearchQuery_LowerTag(q) ==
    LET raw == Trim(IF q = Null THEN <<>> ELSE q)
        m == TagMatch(raw)
        tagValue == IF m.ok THEN ToLowerCase(Trim(TagCapture(m))) ELSE <<>>
        m0 == Slice(raw, m.index, m.end)
    IN  IF raw = <<>> THEN [text |-> <<>>, tag |-> Null]
        ELSE [text |-> IF m.ok THEN Trim(CollapseSpaces(ReplaceFirst(raw, m0, <<" ">>)))
                       ELSE raw,
              tag |-> IF tagValue # <<>> THEN tagValue ELSE Null]

parseSearchQuery(q) ==
    LET raw == Trim(IF q = Null THEN <<>> ELSE q)
        m == TagMatch(raw)
        tagValue == IF m.ok THEN Trim(TagCapture(m)) ELSE <<>>
        tag == IF tagValue # <<>> THEN tagValue ELSE Null
        m0 == Slice(raw, m.index, m.end)
        txt == IF m.ok
               THEN Trim(CollapseSpaces(ReplaceFirst(raw, m0, <<" ">>)))
               ELSE raw
    IN  IF raw = <<>> THEN [text |-> <<>>, tag |-> Null]
        ELSE [text |-> txt, tag |-> tag]

----------------------------------------------------------------------------
(* Inputs of the search box: concatenations of up to MaxTokens fragments.  *)

Tokens ==
    { <<"t", "a", "g", ":">>,
      <<"T", "a", "g", ":">>,
      <<"t", "a", "g", ":", "a">>,
      <<"a">>, <<"B">>, <<" ">>, <<"\"">> }

TokenSeqs(n) == UNION {[1..k -> Tokens] : k \in 0..n}

QueryInputs == {Flatten(ts) : ts \in TokenSeqs(MaxTokens)}

----------------------------------------------------------------------------
(* toHighlightedSegments                                                   *)

\* the characters of the class [.*+?^${}()|[\]\\]
RegexMeta == {".", "*", "+", "?", "^", "$", "{", "}", "(", ")", "|", "[", "]", "\\"}

\* a variant that hands the needle to RegExp as it is
escapeRegex_None(s) == s

\* String(s).replace(/[.*+?^${}()|[\]\\]/g, "\\$&"): a backslash before each
\* character of the class
escapeRegex(s) ==
    Flatten([i \in 1..Len(s) |->
                IF s[i] \in RegexMeta THEN <<"\\", s[i]>> ELSE <<s[i]>>])

\* new RegExp(pattern, "ig"), for the pattern language escapeRegex can produce
\* or leave behind: a backslash makes the next character a literal, an
\* unescaped "." is the wildcard, any other character is a literal.
RECURSIVE RegExpAtoms(_)
RegExpAtoms(p) ==
    IF p = <<>> THEN <<>>
    ELSE IF Head(p) = "\\" /\ Len(p) >= 2
         THEN <<[kind |-> "lit", ch |-> p[2]]>> \o RegExpAtoms(SubSeq(p, 3, Len(p)))
    ELSE IF Head(p) = "."
         THEN <<[kind |-> "any", ch |-> "."]>> \o RegExpAtoms(Tail(p))
    ELSE <<[kind |-> "lit", ch |-> Head(p)]>> \o RegExpAtoms(Tail(p))

\* one atom against one character under the "i" flag
AtomMatches(atom, c) ==
    IF atom.kind = "any" THEN c # "\n"
    ELSE LowerChar(atom.ch) = LowerChar(c)

\* the atoms match s at the 0-based position i
AtomsMatchAt(s, atoms, i) ==
    /\ i + Len(atoms) <= Len(s)
    /\ \A k \in 1..Len(atoms) : AtomMatches(atoms[k], s[i + k])

\* re.exec from lastIndex: the leftmost match position >= from, -1 when none
NextMatch(s, atoms, from) ==
    LET hits == {i \in from..Len(s) : AtomsMatchAt(s, atoms, i)}
    IN  IF hits = {} THEN -1 ELSE CHOOSE i \in hits : \A j \in hits : i <= j

\* The loop `for (const match of s.matchAll(re))`.  Every match is as long as
\* the pattern and not empty, so the iterator resumes at the end of the match,
\* which is the value the body stores in `last`.
RECURSIVE HighlightLoop(_, _, _, _)
HighlightLoop(s, atoms, last, parts) ==
    LET start == NextMatch(s, atoms, last)
        end == start + Len(atoms)
        gap == IF start > last
               THEN Append(parts, [text |-> Slice(s, last, start), highlight |-> FALSE])
               ELSE parts
    IN  IF start = -1 THEN [parts |-> parts, last |-> last]
        ELSE HighlightLoop(s, atoms, end,
                 Append(gap, [text |-> Slice(s, start, end), highlight |-> TRUE]))

\* a variant that forgets the text after the last match
toHighlightedSegments_NoRemainder(txt, ndl) ==
    LET s == IF txt = Null THEN <<>> ELSE txt
        q == Trim(IF ndl = Null THEN <<>> ELSE ndl)
        r == HighlightLoop(s, RegExpAtoms(escapeRegex(q)), 0, <<>>)
    IN  IF q = <<>> THEN <<[text |-> s, highlight |-> FALSE]>>
        ELSE IF r.parts # <<>> THEN r.parts
        ELSE <<[text |-> s, highlight |-> FALSE]>>

\* a variant that appends the remainder even when nothing remains
toHighlightedSegments_AlwaysRemainder(txt, ndl) ==
    LET s == IF txt = Null THEN <<>> ELSE txt
        q == Trim(IF ndl = Null THEN <<>> ELSE ndl)
        r == HighlightLoop(s, RegExpAtoms(escapeRegex(q)), 0, <<>>)
    IN  IF q = <<>> THEN <<[text |-> s, highlight |-> FALSE]>>
        ELSE Append(r.parts, [text |-> Slice(s, r.last, Len(s)), highlight |-> FALSE])

toHighlightedSegments(txt, ndl) ==
    LET s == IF txt = Null THEN <<>> ELSE txt
        q == Trim(IF ndl = Null THEN <<>> ELSE ndl)
        r == HighlightLoop(s, RegExpAtoms(escapeRegex(q)), 0, <<>>)
        parts == IF r.last < Len(s)
                 THEN Append(r.parts, [text |-> Slice(s, r.last, Len(s)), highlight |-> FALSE])
                 ELSE r.parts
    IN  IF q = <<>> THEN <<[text |-> s, highlight |-> FALSE]>>
        ELSE IF parts # <<>> THEN parts
        ELSE <<[text |-> s, highlight |-> FALSE]>>

\* the characters texts and needles are made of
HighlightChars == {"a", "A", "b", ".", " "}

StringsUpTo(chars, n) == UNION {[1..k -> chars] : k \in 0..n}

----------------------------------------------------------------------------
(* filterNotes                                                             *)

\* the object n has the property f
Has(n, f) == f \in DOMAIN n

\* a string value is truthy: neither undefined/null nor ""
Truthy(v) == v # Null /\ v # <<>>

TitleOf(n) == IF Has(n, "title") THEN n.title ELSE <<>>     \* n.title || ""
BodyOf(n) == IF Has(n, "body") THEN n.body ELSE <<>>        \* n.body || ""
TagsOf(n) == IF Has(n, "tags") THEN n.tags ELSE <<>>        \* n.tags || []

\* Array.prototype.join
RECURSIVE Join(_, _)
Join(ss, sep) ==
    IF ss = <<>> THEN <<>>
    ELSE IF Len(ss) = 1 THEN Head(ss)
    ELSE Head(ss) \o sep \o Join(Tail(ss), sep)

AllTag == <<"a", "l", "l">>     \* the sentinel "all"

\* a variant that builds the haystack without lower-casing it
NoteMatches_RawHay(n, q, tagFromQuery, active) ==
    LET tags == TagsOf(n)
        matchesActiveTag ==
            IF ~Truthy(active) \/ active = AllTag THEN TRUE
            ELSE \E i \in 1..Len(tags) : tags[i] = active
        matchesQueryTag ==
            IF ~Truthy(tagFromQuery) THEN TRUE
            ELSE \E i \in 1..Len(tags) :
                    ToLowerCase(tags[i]) = ToLowerCase(tagFromQuery)
        hay == TitleOf(n) \o <<"\n">> \o BodyOf(n) \o <<"\n">> \o Join(tags, <<" ">>)
    IN  IF q = <<>> THEN matchesActiveTag /\ matchesQueryTag
        ELSE matchesActiveTag /\ matchesQueryTag /\ Includes(hay, q)

\* a variant that compares the tag: clause with the tags case-sensitively
NoteMatches_ExactQueryTag(n, q, tagFromQuery, active) ==
    LET tags == TagsOf(n)
        matchesActiveTag ==
            IF ~Truthy(active) \/ active = AllTag THEN TRUE
            ELSE \E i \in 1..Len(tags) : tags[i] = active
        matchesQueryTag ==
            IF ~Truthy(tagFromQuery) THEN TRUE
            ELSE \E i \in 1..Len(tags) : tags[i] = tagFromQuery
        hay == ToLowerCase(TitleOf(n) \o <<"\n">> \o BodyOf(n) \o <<"\n">>
                           \o Join(tags, <<" ">>))
    IN  IF q = <<>> THEN matchesActiveTag /\ matchesQueryTag
        ELSE matchesActiveTag /\ matchesQueryTag /\ Includes(hay, q)

\* the callback handed to notes.filter
NoteMatches(n, q, tagFromQuery, active) ==
    LET tags == TagsOf(n)
        matchesActiveTag ==
            IF ~Truthy(active) \/ active = AllTag THEN TRUE
            ELSE \E i \in 1..Len(tags) : tags[i] = active
        matchesQueryTag ==
            IF ~Truthy(tagFromQuery) THEN TRUE
            ELSE \E i \in 1..Len(tags) :
                    ToLowerCase(tags[i]) = ToLowerCase(tagFromQuery)
        hay == ToLowerCase(TitleOf(n) \o <<"\n">> \o BodyOf(n) \o <<"\n">>
                           \o Join(tags, <<" ">>))
    IN  IF q = <<>> THEN matchesActiveTag /\ matchesQueryTag
        ELSE matchesActiveTag /\ matchesQueryTag /\ Includes(hay, q)

\* Array.prototype.filter: the elements the callback accepts, pushed in
\* iteration order onto a new array
RECURSIVE FilterLoop(_, _, _, _, _)
FilterLoop(ns, q, tagFromQuery, active, out) ==
    IF ns = <<>> THEN out
    ELSE FilterLoop(Tail(ns), q, tagFromQuery, active,
                    IF NoteMatches(Head(ns), q, tagFromQuery, active)
                    THEN Append(out, Head(ns)) ELSE out)

Reverse(s) == [i \in 1..Len(s) |-> s[Len(s) + 1 - i]]

\* a variant that returns the matches newest-pushed first
filterNotes_Reversed(ns, qry, active) ==
    LET p == parseSearchQuery(qry)
        q == ToLowerCase(Trim(p.text))
    IN  Reverse(FilterLoop(ns, q, p.tag, active, <<>>))

filterNotes(ns, qry, active) ==
    LET p == parseSearchQuery(qry)
        q == ToLowerCase(Trim(p.text))
    IN  FilterLoop(ns, q, p.tag, active, <<>>)

\* the note contents the filter is tried on (ids are added per position)
FilterShapes ==
    { [title |-> <<"a">>],
      [title |-> <<"B">>, body |-> <<"a">>, tags |-> <<<<"a">>, <<"B">>>>],
      [title |-> <<>>, body |-> <<"B">>, tags |-> <<<<"b">>>>],
      [title |-> <<"a">>, body |-> <<"B">>, tags |-> <<>>],
      [body |-> <<"a", " ", "B">>, tags |-> <<<<"B">>>>],
      [tags |-> <<<<"a">>>>] }

WithIds(shapes) == [i \in 1..Len(shapes) |-> shapes[i] @@ [id |-> i]]

NoteArrays(shapes, n) == {WithIds(ss) : ss \in UNION {[1..k -> shapes] : k \in 0..n}}

\* the fragments the filter's queries are made of: a tag clause and a word,
\* each followed by a space, and a word in upper case
FilterTokens == { <<"t", "a", "g", ":", "B", " ">>, <<"a", " ">>, <<"B">> }

FilterQueries ==
    {Flatten(ts) : ts \in UNION {[1..k -> FilterTokens] : k \in 0..MaxFilterTokens}}

ActiveTags == {Null, <<>>, AllTag, <<"a">>, <<"b">>, <<"B">>}

----------------------------------------------------------------------------
(* sortNotesByUpdatedAtDesc                                                *)

\* Time values are day ordinals on an abstract scale that keeps the order of
\* the instants; NaN is the result of a failed Date.parse.
NaN == -1
EpochZero == 0      \* 1970-01-01, the time value 0
Y2K == 2            \* 2000-01-01, what the engines that read "0" as a year answer

\* the ISO-8601 strings of the instants of the scale, by day ordinal
IsoStrings ==
    << "1999-06-01T00:00:00.000Z", "2000-01-01T00:00:00.000Z",
       "2025-01-01T00:00:00.000Z", "2025-01-02T00:00:00.000Z",
       "2025-01-03T00:00:00.000Z", "2025-01-04T00:00:00.000Z",
       "2025-01-05T00:00:00.000Z", "2025-01-06T00:00:00.000Z" >>

\* Date.prototype.toISOString of the instant t
toISOString(t) == IsoStrings[t]

\* Date.parse of a string: the instant an ISO string denotes, NaN for any
\* other string
DateParse(v) ==
    IF \E t \in DOMAIN IsoStrings : IsoStrings[t] = v
    THEN CHOOSE t \in DOMAIN IsoStrings : IsoStrings[t] = v
    ELSE NaN

\* Date.parse(a.updatedAt || a.createdAt || 0): the first truthy of the two
\* fields is parsed; with neither, the number 0 is converted to the string "0",
\* whose reading is left to the engine (zero is NaN or Y2K)
NoteTime(n, zero) ==
    IF Has(n, "updatedAt") /\ n.updatedAt # "" THEN DateParse(n.updatedAt)
    ELSE IF Has(n, "createdAt") /\ n.createdAt # "" THEN DateParse(n.createdAt)
    ELSE zero

\* the comparator `tb - ta` as Array.prototype.sort reads it: a NaN result
\* counts as +0
SortCompare(a, b, zero) ==
    LET ta == NoteTime(a, zero)
        tb == NoteTime(b, zero)
    IN  IF ta = NaN \/ tb = NaN THEN 0 ELSE tb - ta

\* the comparator is a consistent comparison function for the elements of ns
\* (ECMAScript, Array.prototype.sort)
ConsistentComparator(ns, zero) ==
    LET c(i, j) == SortCompare(ns[i], ns[j], zero)
        I == 1..Len(ns)
    IN  \A i \in I, j \in I, k \in I :
            /\ c(i, i) = 0
            /\ (c(i, j) = 0) => (c(j, i) = 0)
            /\ (c(i, j) < 0) <=> (c(j, i) > 0)
            /\ (c(i, j) = 0 /\ c(j, k) = 0) => (c(i, k) = 0)
            /\ (c(i, j) < 0 /\ c(j, k) < 0) => (c(i, k) < 0)
            /\ (c(i, j) > 0 /\ c(j, k) > 0) => (c(i, k) > 0)

\* the orders of the positions 1..n
Orders(n) == {p \in [1..n -> 1..n] : \A i \in 1..n, j \in 1..n : p[i] = p[j] => i = j}

\* The orders Array.prototype.sort may leave the elements in: with a consistent
\* comparator the one stable sorted order, otherwise any order (the sort order
\* is implementation-defined).
SortOrders(ns, zero) ==
    IF ConsistentComparator(ns, zero)
    THEN {p \in Orders(Len(ns)) :
            \A i \in 1..Len(ns), j \in 1..Len(ns) :
                i < j =>
                    LET c == SortCompare(ns[p[i]], ns[p[j]], zero)
                    IN  c < 0 \/ (c = 0 /\ p[i] < p[j])}
    ELSE Orders(Len(ns))

ApplyOrder(ns, p) == [i \in 1..Len(ns) |-> ns[p[i]]]

\* a variant that sorts the caller's array itself
InputAfterSort_InPlace(ns, result) == result

\* the array `notes` after the call: the spread copy is what gets sorted
InputAfterSort(ns, result) == ns

\* the arrays the call may return: [...notes].sort(comparator)
sortNotesByUpdatedAtDesc(ns, zero) == {ApplyOrder(ns, p) : p \in SortOrders(ns, zero)}

\* the timestamp fields the sort is tried on (ids are added per position)
SortShapes ==
    { [title |-> <<>>],
      [updatedAt |-> "2025-01-01T00:00:00.000Z"],
      [updatedAt |-> "2025-01-02T00:00:00.000Z",
       createdAt |-> "2025-01-01T00:00:00.000Z"],
      [createdAt |-> "2025-01-02T00:00:00.000Z"],
      [createdAt |-> "1999-06-01T00:00:00.000Z"],
      [updatedAt |-> "not-a-date", createdAt |-> "2025-01-02T00:00:00.000Z"],
      [updatedAt |-> "not-a-date"] }

----------------------------------------------------------------------------
(* createEmptyNote, updateNoteTimestamps                                   *)

Min(a, b) == IF a <= b THEN a ELSE b

\* the digits of Number.prototype.toString(36)
Digits36 ==
    << "0", "1", "2", "3", "4", "5", "6", "7", "8", "9", "a", "b", "c", "d",
       "e", "f", "g", "h", "i", "j", "k", "l", "m", "n", "o", "p", "q", "r",
       "s", "t", "u", "v", "w", "x", "y", "z" >>

\* n.toString(36) for an integer n >= 0
RECURSIVE ToString36(_)
ToString36(n) ==
    IF n < 36 THEN <<Digits36[n + 1]>>
    ELSE ToString36(n \div 36) \o <<Digits36[(n % 36) + 1]>>

\* What Math.random() may return, each value written as the digits of its
\* base-36 fraction: 0 and two values that differ in the eighth digit.
RandomValues ==
    { <<>>,
      <<"4", "f", "z", "q", "9", "k", "2", "m">>,
      <<"4", "f", "z", "q", "9", "k", "2", "x">> }

\* Math.random().toString(36): "0" for 0, else "0." and the fraction digits
RandomToString36(r) == IF r = <<>> THEN <<"0">> ELSE <<"0", ".">> \o r

\* uuidLike with Date.now() = t and Math.random() = r:
\* `${Date.now().toString(36)}-${Math.random().toString(36).slice(2, 9)}`
uuidLike(t, r) ==
    ToString36(t) \o <<"-">>
        \o Slice(RandomToString36(r), 2, Min(9, Len(RandomToString36(r))))

UntitledNote == <<"U", "n", "t", "i", "t", "l", "e", "d", " ", "n", "o", "t", "e">>

\* a variant that reads the clock again for updatedAt
createEmptyNote_TwoClockReads(tNow, tId, r) ==
    [id |-> uuidLike(tId, r), title |-> UntitledNote, body |-> <<>>, tags |-> <<>>,
     createdAt |-> toISOString(tNow), updatedAt |-> toISOString(tId)]

\* createEmptyNote: tNow is the clock read by `new Date()` on line 44, tId the
\* clock read by Date.now() inside uuidLike, r the value of Math.random()
createEmptyNote(tNow, tId, r) ==
    [id |-> uuidLike(tId, r), title |-> UntitledNote, body |-> <<>>, tags |-> <<>>,
     createdAt |-> toISOString(tNow), updatedAt |-> toISOString(tNow)]

\* note.createdAt is truthy
HasCreatedAt(note) == Has(note, "createdAt") /\ note.createdAt # ""

\* a variant that stamps createdAt anew on every call
updateNoteTimestamps_ResetCreated(note, t1, t2) ==
    [f \in DOMAIN note \cup {"createdAt", "updatedAt"} |->
        IF f = "createdAt" THEN toISOString(t1)
        ELSE IF f = "updatedAt" THEN toISOString(t2)
        ELSE note[f]]

\* a variant that rebuilds the note field by field and forgets the tags
updateNoteTimestamps_DropTags(note, t1, t2) ==
    [f \in (DOMAIN note \cup {"createdAt", "updatedAt"}) \ {"tags"} |->
        IF f = "createdAt"
        THEN IF HasCreatedAt(note) THEN note.createdAt ELSE toISOString(t1)
        ELSE IF f = "updatedAt" THEN toISOString(t2)
        ELSE note[f]]

\* updateNoteTimestamps: { ...note, createdAt: note.createdAt || <now>,
\* updatedAt: <now> }.  t1 is the clock read by the first `new Date()`, which
\* is evaluated only when createdAt is falsy; t2 is the clock read for updatedAt.
updateNoteTimestamps(note, t1, t2) ==
    [f \in DOMAIN note \cup {"createdAt", "updatedAt"} |->
        IF f = "createdAt"
        THEN IF HasCreatedAt(note) THEN note.createdAt ELSE toISOString(t1)
        ELSE IF f = "updatedAt" THEN toISOString(t2)
        ELSE note[f]]

\* a variant that stamps the caller's object
InputAfterTouch_InPlace(note, result) == result

\* the object `note` after the call: the spread builds a new object
InputAfterTouch(note, result) == note

\* notes from a store handed to updateNoteTimestamps: the one of the unit
\* test, one without timestamps, one with an empty createdAt, one with an
\* unreadable createdAt
LoadedNotes ==
    { [id |-> <<"1">>, title |-> <<"A">>, body |-> <<>>, tags |-> <<>>,
       createdAt |-> "2025-01-01T00:00:00.000Z",
       updatedAt |-> "2025-01-01T00:00:00.000Z"],
      [id |-> <<"2">>, title |-> <<"a">>, body |-> <<"b">>, tags |-> << <<"a">>, <<"B">> >>],
      [id |-> <<"3">>, title |-> <<"a">>, createdAt |-> "",
       updatedAt |-> "2025-01-01T00:00:00.000Z"],
      [id |-> <<"4">>, tags |-> << <<"a">> >>, createdAt |-> "not-a-date"] }

----------------------------------------------------------------------------
(* NotesApi                                                                *)

\* base.replace(/\/+$/, ""): the string without its trailing slashes
RECURSIVE StripTrailingSlashes(_)
StripTrailingSlashes(s) ==
    IF s # <<>> /\ s[Len(s)] = "/" THEN StripTrailingSlashes(SubSeq(s, 1, Len(s) - 1))
    ELSE s

\* (process.env.X || "").trim(); an unset variable is Null
EnvTrim(v) == IF v = Null THEN <<>> ELSE Trim(v)

\* resolveApiBase: the first of the two variables that is not blank, without
\* trailing slashes
resolveApiBase(e) ==
    LET a == EnvTrim(e.REACT_APP_API_BASE)
        b == EnvTrim(e.REACT_APP_BACKEND_URL)
    IN  StripTrailingSlashes(IF a # <<>> THEN a ELSE b)

\* a variant that answers true whatever the base
hasApi_Always(base) == TRUE

\* NotesApi.hasApi: Boolean(this.base)
hasApi(base) == base # <<>>

HttpScheme == <<"h", "t", "t", "p", ":", "/", "/">>

\* the string is an absolute http URL: the scheme, then a host
IsHttpUrl(s) ==
    /\ Len(s) > Len(HttpScheme)
    /\ StartsWithAt(s, HttpScheme, 0)
    /\ s[Len(HttpScheme) + 1] \notin {"/", ":", " "}

\* What fetch(url) may do: the response is ok, the response is an HTTP
\* error, or the promise rejects (network failure; the only outcome for a
\* URL that is no http URL).
FetchOutcomes(url) ==
    IF IsHttpUrl(url) THEN {"ok", "http", "network"} ELSE {"network"}

\* listNotes / upsertNote / deleteNote on a client with this base, the fetch
\* ending as `outcome`: null without a request when there is no API, else a
\* request whose failure is thrown
ApiCall(base, outcome) ==
    IF ~hasApi(base) THEN [fetched |-> FALSE, result |-> "null"]
    ELSE IF outcome = "ok" THEN [fetched |-> TRUE, result |-> "json"]
    ELSE [fetched |-> TRUE, result |-> "throws"]

\* the fragments environment values are made of
UrlTokens == { HttpScheme, <<"x">>, <<":", "8">>, <<"/">>, <<" ">> }

EnvValues ==
    {Null} \cup {Flatten(ts) : ts \in UNION {[1..k -> UrlTokens] : k \in 0..MaxUrlTokens}}

BackendValues == {Null, <<>>, HttpScheme \o <<"x">>, <<"x", ":", "8">>}

----------------------------------------------------------------------------
(* App: derived values, effects and handlers.  `a` is the component's      *)
(* state: notes, selectedId, activeTag, draftTitle, draftBody,             *)
(* draftTagsText, saveState, toast, and the refs lastSavedAt,              *)
(* saveAttemptSeq and autosaveTimer (TRUE while the timeout is pending).   *)

\* null where an object is expected: no selected note, no toast
NoNote == [null |-> TRUE]

\* notes.find((n) => n.id === selectedId) || null
selectedNote(a) ==
    LET hits == {i \in 1..Len(a.notes) : a.notes[i].id = a.selectedId}
    IN  IF hits = {} THEN NoNote
        ELSE a.notes[CHOOSE i \in hits : \A j \in hits : i <= j]

\* s.split(",")
RECURSIVE SplitComma(_)
SplitComma(s) ==
    LET at == IndexOf(s, <<",">>)
    IN  IF at = -1 THEN <<s>>
        ELSE <<Slice(s, 0, at)>> \o SplitComma(Slice(s, at + 1, Len(s)))

\* Array.from(new Set(xs)): the first occurrence of every element, in order
RECURSIVE Unique(_)
Unique(xs) ==
    IF xs = <<>> THEN <<>>
    ELSE LET init == Unique(SubSeq(xs, 1, Len(xs) - 1))
             last == xs[Len(xs)]
         IN  IF \E i \in 1..Len(init) : init[i] = last THEN init
             ELSE Append(init, last)

\* parsedDraftTags: split at commas, trim, drop the empty ones, deduplicate
parsedDraftTags(a) ==
    LET trimmed == [i \in 1..Len(SplitComma(a.draftTagsText)) |->
                        Trim(SplitComma(a.draftTagsText)[i])]
    IN  Unique(SelectSeq(trimmed, LAMBDA t : t # <<>>))

\* isDirty of the dirty effect: the draft differs from the selected note
isDirty(a) ==
    LET sel == selectedNote(a)
    IN  \/ a.draftTitle # sel.title
        \/ a.draftBody # sel.body
        \/ parsedDraftTags(a) # sel.tags

\* applyDraftToSelectedNote, the clock reading t
applyDraftToSelectedNote(a, t) ==
    LET sel == selectedNote(a)
        updated == [sel EXCEPT
                      !.title = IF Trim(a.draftTitle) # <<>> THEN Trim(a.draftTitle)
                                ELSE UntitledNote,
                      !.body = a.draftBody,
                      !.tags = parsedDraftTags(a)]
    IN  updateNoteTimestamps(updated, t, t)

\* a variant that leaves the draft of the previous note in the editor
SelectionSync_KeepDraft(a, render) == [a EXCEPT !.saveState = "saved"]

\* the state updates the selection sync effect queues
SelectionSync(a, render) ==
    LET sel == selectedNote(render)
    IN  IF sel = NoNote
        THEN [a EXCEPT !.draftTitle = <<>>, !.draftBody = <<>>,
                       !.draftTagsText = <<>>, !.saveState = "saved"]
        ELSE [a EXCEPT !.draftTitle = sel.title, !.draftBody = sel.body,
                       !.draftTagsText = Join(sel.tags, <<",", " ">>),
                       !.saveState = "saved"]

\* the state update the dirty effect queues
DirtyEffect(a, render) ==
    IF selectedNote(render) = NoNote THEN a
    ELSE [a EXCEPT !.saveState = IF isDirty(render) THEN "dirty" ELSE "saved"]

\* the autosave effect: its cleanup clears the timeout, and a new one is set
\* when a note is selected and the rendered save state is 'dirty'
AutosaveEffect(render) == selectedNote(render) # NoNote /\ render.saveState = "dirty"

\* Render and run the effects until nothing changes.  `old` is the state of
\* the previous render (the effects' dependencies), `new` the state to render,
\* `replaced` tells that the selected note is a new object.  The effects run
\* in the order of their declaration, each on the rendered values; their state
\* updates apply together before the next render.
RECURSIVE Settle(_, _, _)
Settle(old, new, replaced) ==
    LET selChanged == replaced \/ selectedNote(new) # selectedNote(old)
        draftChanged == \/ new.draftTitle # old.draftTitle
                        \/ new.draftBody # old.draftBody
                        \/ new.draftTagsText # old.draftTagsText
        runSync == new.selectedId # old.selectedId
        runDirty == draftChanged \/ selChanged
        runAutosave == new.saveState # old.saveState \/ selChanged \/ draftChanged
        s1 == IF runSync THEN SelectionSync(new, new) ELSE new
        s2 == IF runDirty THEN DirtyEffect(s1, new) ELSE s1
        s3 == [s2 EXCEPT !.autosaveTimer = IF runAutosave THEN AutosaveEffect(new)
                                           ELSE new.autosaveTimer]
    IN  IF [s3 EXCEPT !.autosaveTimer = new.autosaveTimer] = new THEN s3
        ELSE Settle(new, s3, FALSE)

\* showToast
showToast(a, message, tone) == [a EXCEPT !.toast = [message |-> message, tone |-> tone]]

\* describeSyncFailure of the Error the client throws (it has no `kind`)
SyncFailureMessage == "Saved locally, but failed to sync to API."

\* persistNoteUpdate up to the await: the note replaces its entry, the
\* attempt gets the next sequence number, the save state turns 'saving'
PersistStart(a, note) ==
    [a EXCEPT
       !.notes = [i \in 1..Len(a.notes) |->
                     IF a.notes[i].id = note.id THEN note ELSE a.notes[i]],
       !.saveAttemptSeq = a.saveAttemptSeq + 1,
       !.saveState = IF a.saveState \in {"dirty", "error", "saved"} THEN "saving"
                     ELSE a.saveState]

\* a variant that swallows the failure of an attempt
PersistEnd_Silent(a, attemptSeq, ok, t) ==
    IF attemptSeq # a.saveAttemptSeq \/ ~ok THEN a
    ELSE [a EXCEPT !.saveState = "saved", !.lastSavedAt = toISOString(t)]

\* a variant that applies the outcome of any attempt, not only the latest
PersistEnd_AnyAttempt(a, attemptSeq, ok, t) ==
    IF ok THEN [a EXCEPT !.saveState = "saved", !.lastSavedAt = toISOString(t)]
    ELSE showToast([a EXCEPT !.saveState = "error"], SyncFailureMessage, "warning")

\* persistNoteUpdate after the await, for the attempt attemptSeq: only the
\* latest attempt's outcome is applied
PersistEnd(a, attemptSeq, ok, t) ==
    IF attemptSeq # a.saveAttemptSeq THEN a
    ELSE IF ok THEN [a EXCEPT !.saveState = "saved", !.lastSavedAt = toISOString(t)]
    ELSE showToast([a EXCEPT !.saveState = "error"], SyncFailureMessage, "warning")

\* the drafts the user types
DraftTitles == { <<>>, <<"a">> }
DraftBodies == { <<>>, <<"b">> }
DraftTagsTexts == { <<>>, <<"a">> }

\* the environments the App is started in: no API, an API
AppEnvs ==
    { [REACT_APP_API_BASE |-> Null, REACT_APP_BACKEND_URL |-> Null],
      [REACT_APP_API_BASE |-> HttpScheme \o <<"x">>, REACT_APP_BACKEND_URL |-> Null] }

----------------------------------------------------------------------------
(* Values of the variables a specification does not use.                   *)

NoResult == <<>>

\* no lifecycle call made yet
NoCall == [fn |-> "none", input |-> Null, inputAfter |-> Null, output |-> Null,
           from |-> 0, to |-> 0]

IdleParse == query = <<>> /\ parsed = NoResult
IdleHighlight == text = <<>> /\ needle = <<>> /\ segments = NoResult
IdleNotes == notes = <<>> /\ activeTag = Null /\ filtered = NoResult
IdleSort == sorted = NoResult /\ dateParseZero = NaN
IdleLifecycle == clock = 0 /\ made = <<>> /\ hist = <<>> /\ call = NoCall
IdleApp == env = <<>> /\ app = <<>> /\ pending = <<>> /\ log = <<>>

----------------------------------------------------------------------------
(* Specification SpecParse: parseSearchQuery applied to every input.       *)

InitParse ==
    /\ pc = "ready"
    /\ query \in QueryInputs
    /\ parsed = NoResult
    /\ IdleHighlight /\ IdleNotes /\ IdleSort /\ IdleLifecycle /\ IdleApp

DoParse ==
    /\ pc = "ready"
    /\ parsed' = parseSearchQuery(query)
    /\ pc' = "done"
    /\ UNCHANGED <<query, text, needle, segments, notes, activeTag, filtered,
                   sorted, dateParseZero>>
    /\ UNCHANGED lifecycleVars
    /\ UNCHANGED appVars

NextParse == DoParse

SpecParse == InitParse /\ [][NextParse]_vars

\* the input with surrounding whitespace stripped, as parseSearchQuery sees it
RawQuery == Trim(query)

\* the clause tag:"" with an empty quoted value
EmptyQuotedClause == <<"t", "a", "g", ":", "\"", "\"">>

\* C9: when the query is tag:"" alone, or holds tag:"" between whitespace with
\* no tag: keyword before it, the returned tag is null and the returned text
\* is the query without that span.
C9_EmptyQuotedTagIsNull ==
    pc = "done" =>
        \A at \in 0..Len(RawQuery) :
            LET pre == Slice(RawQuery, 0, at)
                post == Slice(RawQuery, at + Len(EmptyQuotedClause), Len(RawQuery))
            IN  (/\ StartsWithAt(RawQuery, EmptyQuotedClause, at)
                 /\ pre = <<>> \/ IsSpace(pre[Len(pre)])
                 /\ post = <<>> \/ IsSpace(post[1])
                 /\ ~Includes(ToLowerCase(pre), TagKeyword))
                    => /\ parsed.tag = Null
                       /\ parsed.text = Trim(CollapseSpaces(pre \o post))

\* s without the characters at the 0-based positions from..to-1
DeleteSpan(s, from, to) == Slice(s, 0, from) \o Slice(s, to, Len(s))

\* C10: when a tag clause is found, the returned text is the trimmed input
\* with the matched span deleted where it was matched, whitespace runs
\* collapsed and the result trimmed.
C10_ExactSpanRemoved ==
    pc = "done" =>
        LET m == TagMatch(RawQuery)
        IN  m.ok => parsed.text
                       = Trim(CollapseSpaces(DeleteSpan(RawQuery, m.index, m.end)))

\* The tag clause read off the input without the regular expression: the
\* keyword in any letter case, not preceded by a word character ...
KeywordAt(s, i) ==
    /\ i + 4 <= Len(s)
    /\ ToLowerCase(Slice(s, i, i + 4)) = TagKeyword
    /\ i = 0 \/ ~IsWord(s[i])

\* ... and followed, after any whitespace, by at least one more character
ClauseAt(s, i) ==
    /\ KeywordAt(s, i)
    /\ \E k \in (i + 5)..Len(s) : ~IsSpace(s[k])

HasClause(s) == \E i \in 0..Len(s) : ClauseAt(s, i)

\* the position of the first clause of s
FirstClause(s) ==
    CHOOSE i \in 0..Len(s) : ClauseAt(s, i) /\ \A j \in 0..(i - 1) : ~ClauseAt(s, j)

\* the position after the clause's keyword and the whitespace that follows it
ValueStart(s, i) ==
    CHOOSE v \in (i + 4)..Len(s) :
        /\ \A k \in (i + 5)..v : IsSpace(s[k])
        /\ v = Len(s) \/ ~IsSpace(s[v + 1])

\* the positions e of a quote closing a quoted value that opens at v: the
\* characters between the two quotes are at least one and hold no quote
ClosingQuotes(s, v) ==
    {e \in (v + 2)..(Len(s) - 1) :
        /\ s[v + 1] = "\""
        /\ s[e + 1] = "\""
        /\ \A k \in (v + 2)..e : s[k] # "\""}

\* the token at v: the characters from v up to the next whitespace
TokenAt(s, v) ==
    LET w == CHOOSE w \in v..Len(s) :
                /\ \A k \in (v + 1)..w : ~IsSpace(s[k])
                /\ w = Len(s) \/ IsSpace(s[w + 1])
    IN  Slice(s, v, w)

\* the tag read at v: the quoted value without its quotes or else the token,
\* trimmed, in the letter case of the input; null when that is empty
TagReadAt(s, v) ==
    LET value == IF ClosingQuotes(s, v) # {}
                 THEN Trim(Slice(s, v + 1, CHOOSE e \in ClosingQuotes(s, v) : TRUE))
                 ELSE Trim(TokenAt(s, v))
    IN  IF value = <<>> THEN Null ELSE value

\* C11: when the input holds more than one tag clause, the returned tag is the
\* value of the first clause, and every clause after the first stays
\* in the returned text (whitespace-collapsed like all free text).
C11_FirstClauseOnly ==
    pc = "done" =>
        LET m == TagMatch(RawQuery)
            rest == Slice(RawQuery, m.end, Len(RawQuery))
        IN  (m.ok /\ HasClause(rest)) =>
                /\ parsed.tag = TagReadAt(RawQuery,
                                           ValueStart(RawQuery, FirstClause(RawQuery)))
                /\ \A i \in 0..Len(rest) :
                      TagMatchAt(rest, i).ok =>
                          Includes(parsed.text,
                                   CollapseSpaces(Slice(rest, i, TagMatchAt(rest, i).end)))

\* the input `tag:a Tag:B`: the first clause gives the tag, the second stays
C11_Witness ==
    /\ pc = "done"
    /\ RawQuery = <<"t", "a", "g", ":", "a", " ", "T", "a", "g", ":", "B">>
    /\ parsed.tag = <<"a">>
    /\ parsed.text = <<"T", "a", "g", ":", "B">>

\* s neither starts nor ends with whitespace
IsTrimmed(s) == s = <<>> \/ (~IsSpace(s[1]) /\ ~IsSpace(s[Len(s)]))

\* s holds no two whitespace characters in a row
NoSpaceRun(s) == \A k \in 1..(Len(s) - 1) : ~(IsSpace(s[k]) /\ IsSpace(s[k + 1]))

\* C12 (as stated): for every input, with or without a tag clause, the
\* returned text has no leading or trailing whitespace and no run of two or
\* more whitespace characters.
C12_TextAlwaysCollapsed ==
    pc = "done" => IsTrimmed(parsed.text) /\ NoSpaceRun(parsed.text)

\* C12 (amended): the returned text never has leading or trailing whitespace,
\* and it has no run of two or more whitespace characters when the input
\* holds a tag clause.
C12_TextCollapsedWithClause ==
    pc = "done" =>
        /\ IsTrimmed(parsed.text)
        /\ HasClause(RawQuery) => NoSpaceRun(parsed.text)

\* an input with a clause and a run of whitespace, whose text came out collapsed
C12_Witness ==
    /\ pc = "done"
    /\ HasClause(RawQuery)
    /\ ~NoSpaceRun(RawQuery)
    /\ Len(parsed.text) >= 3
    /\ \E k \in 2..(Len(parsed.text) - 1) : IsSpace(parsed.text[k])

\* C13: an input without a tag clause gives tag = null and text = the trimmed
\* input, interior untouched; an empty or whitespace-only input gives
\* {text: "", tag: null}.
C13_NoClauseTextUnchanged ==
    pc = "done" =>
        /\ ~HasClause(RawQuery) => parsed = [text |-> RawQuery, tag |-> Null]
        /\ (\A k \in 1..Len(query) : IsSpace(query[k]))
              => parsed = [text |-> <<>>, tag |-> Null]

\* the input `a  B` padded with whitespace: the inner run of two spaces stays
C13_Witness ==
    /\ pc = "done"
    /\ query # RawQuery
    /\ ~HasClause(RawQuery)
    /\ parsed.text = <<"a", " ", " ", "B">>
    /\ parsed.tag = Null

\* C14 (as stated): the tag of the first clause is the quoted value or the
\* token that starts directly after the colon, trimmed, letter case kept.
C14_TagDirectlyAfterColon ==
    pc = "done" =>
        (HasClause(RawQuery) =>
            parsed.tag = TagReadAt(RawQuery, FirstClause(RawQuery) + 4))

\* C14 (amended): the tag of the first clause is the quoted value or the
\* token that follows the colon after optional whitespace, trimmed, letter
\* case kept; the keyword is recognised in any letter case.
C14_TagAfterOptionalSpace ==
    pc = "done" =>
        (HasClause(RawQuery) =>
            parsed.tag = TagReadAt(RawQuery, ValueStart(RawQuery, FirstClause(RawQuery))))

\* the input `Tag: "B"`: capitalised keyword, whitespace after the colon,
\* quoted value with an upper-case letter
C14_Witness ==
    /\ pc = "done"
    /\ RawQuery = <<"T", "a", "g", ":", " ", "\"", "B", "\"">>
    /\ parsed.tag = <<"B">>

----------------------------------------------------------------------------
(* Specification SpecHighlight: toHighlightedSegments on every text/needle. *)

InitHighlight ==
    /\ pc = "ready"
    /\ text \in StringsUpTo(HighlightChars, MaxTextLen)
    /\ needle \in StringsUpTo(HighlightChars, MaxNeedleLen)
    /\ segments = NoResult
    /\ IdleParse /\ IdleNotes /\ IdleSort /\ IdleLifecycle /\ IdleApp

DoHighlight ==
    /\ pc = "ready"
    /\ segments' = toHighlightedSegments(text, needle)
    /\ pc' = "done"
    /\ UNCHANGED <<query, parsed, text, needle, notes, activeTag, filtered,
                   sorted, dateParseZero>>
    /\ UNCHANGED lifecycleVars
    /\ UNCHANGED appVars

NextHighlight == DoHighlight

SpecHighlight == InitHighlight /\ [][NextHighlight]_vars

\* the texts of the segments, in order, joined
SegmentTexts(segs) == Flatten([i \in 1..Len(segs) |-> segs[i].text])

\* C1: for every text and needle, the texts of the returned segments,
\* concatenated in order, are exactly the input text.
C1_Reconstruction ==
    pc = "done" => SegmentTexts(segments) = text

\* a call that produced a gap, a highlighted match and a remainder
C1_Witness ==
    /\ pc = "done"
    /\ Len(segments) >= 3
    /\ ~segments[1].highlight
    /\ segments[2].highlight
    /\ ~segments[Len(segments)].highlight

\* the needle as toHighlightedSegments uses it
TrimmedNeedle == Trim(needle)

\* the needle occurs in the text at the 0-based position i: the same
\* characters, letters compared without regard to case
OccursAt(i) ==
    /\ i + Len(TrimmedNeedle) <= Len(text)
    /\ ToLowerCase(Slice(text, i, i + Len(TrimmedNeedle))) = ToLowerCase(TrimmedNeedle)

\* the position in the text at which segment k starts
SegmentStart(k) == Len(SegmentTexts(SubSeq(segments, 1, k - 1)))

HighlightStarts == {SegmentStart(k) : k \in {j \in 1..Len(segments) : segments[j].highlight}}

\* C15: for a needle that does not trim to empty, each highlighted segment is
\* the slice of the text at a literal, case-insensitive occurrence of the
\* needle (in the text's own casing), and the highlighted occurrences are the
\* ones a left-to-right, non-overlapping scan finds: any other occurrence
\* starts inside a highlighted one.
C15_LiteralOccurrences ==
    (pc = "done" /\ TrimmedNeedle # <<>>) =>
        /\ \A k \in 1..Len(segments) :
              segments[k].highlight =>
                  /\ OccursAt(SegmentStart(k))
                  /\ segments[k].text
                        = Slice(text, SegmentStart(k), SegmentStart(k) + Len(TrimmedNeedle))
        /\ \A i \in 0..Len(text) :
              OccursAt(i) =>
                  \/ i \in HighlightStarts
                  \/ \E p \in HighlightStarts : p < i /\ i < p + Len(TrimmedNeedle)

\* a needle with a metacharacter and a letter, found in the text in another
\* letter case, next to a character the wildcard reading would have taken
C15_Witness ==
    /\ pc = "done"
    /\ "." \in {TrimmedNeedle[k] : k \in 1..Len(TrimmedNeedle)}
    /\ \E k \in 1..Len(segments) :
          segments[k].highlight /\ segments[k].text # TrimmedNeedle
    /\ \E k \in 1..Len(segments) :
          ~segments[k].highlight /\ Len(segments[k].text) >= 2

\* C16: one segment {text, highlight: false} when the needle trims to empty
\* or does not occur in the text; otherwise no segment has an empty text and
\* no two neighbouring segments are both not highlighted.
C16_SegmentShape ==
    pc = "done" =>
        IF TrimmedNeedle = <<>> \/ \A i \in 0..Len(text) : ~OccursAt(i)
        THEN segments = <<[text |-> text, highlight |-> FALSE]>>
        ELSE /\ \A k \in 1..Len(segments) : segments[k].text # <<>>
             /\ \A k \in 1..(Len(segments) - 1) :
                   segments[k].highlight \/ segments[k + 1].highlight

\* two matches back to back, then a remainder: no empty gap between them
C16_Witness ==
    /\ pc = "done"
    /\ Len(segments) = 3
    /\ segments[1].highlight
    /\ segments[2].highlight
    /\ ~segments[3].highlight

----------------------------------------------------------------------------
(* Specification SpecFilter: filterNotes on every collection, query, chip. *)

InitFilter ==
    /\ pc = "ready"
    /\ notes \in NoteArrays(FilterShapes, MaxFilterNotes)
    /\ query \in FilterQueries
    /\ activeTag \in ActiveTags
    /\ filtered = NoResult
    /\ parsed = NoResult
    /\ IdleHighlight /\ IdleSort /\ IdleLifecycle /\ IdleApp

DoFilter ==
    /\ pc = "ready"
    /\ filtered' = filterNotes(notes, query, activeTag)
    /\ pc' = "done"
    /\ UNCHANGED <<query, parsed, text, needle, segments, notes, activeTag,
                   sorted, dateParseZero>>
    /\ UNCHANGED lifecycleVars
    /\ UNCHANGED appVars

NextFilter == DoFilter

SpecFilter == InitFilter /\ [][NextFilter]_vars

\* the note is an element of the array
InArray(arr, n) == \E j \in 1..Len(arr) : arr[j] = n

\* sub occurs in str as a contiguous block
IsSubstring(sub, str) ==
    \E i \in 0..(Len(str) - Len(sub)) : SubSeq(str, i + 1, i + Len(sub)) = sub

\* predicate (1): no chip is selected (null, absent or empty) or the chip is
\* "all", or the note carries the chip's tag exactly
ClaimActiveTag(n) ==
    \/ activeTag \in {Null, <<>>, AllTag}
    \/ Has(n, "tags") /\ \E i \in 1..Len(n.tags) : n.tags[i] = activeTag

\* predicate (2): the query holds no tag clause, or some tag of the note equals
\* the clause's value up to letter case
ClaimQueryTag(n) ==
    LET t == parseSearchQuery(query).tag
    IN  \/ t = Null
        \/ Has(n, "tags") /\ \E i \in 1..Len(n.tags) :
                                ToLowerCase(n.tags[i]) = ToLowerCase(t)

\* predicate (3): the lower-cased, trimmed free text is empty or a substring of
\* lower(title + "\n" + body + "\n" + tags joined by spaces)
ClaimFreeText(n) ==
    LET q == ToLowerCase(Trim(parseSearchQuery(query).text))
        title == IF Has(n, "title") THEN n.title ELSE <<>>
        body == IF Has(n, "body") THEN n.body ELSE <<>>
        tags == IF Has(n, "tags") THEN n.tags ELSE <<>>
        joined == Flatten([i \in 1..Len(tags) |->
                              IF i = 1 THEN tags[i] ELSE <<" ">> \o tags[i]])
    IN  \/ q = <<>>
        \/ IsSubstring(q, ToLowerCase(title \o <<"\n">> \o body \o <<"\n">> \o joined))

\* C2: filterNotes returns a note iff the active-tag predicate, the query-tag
\* predicate and the free-text predicate hold together (the chip and the tag:
\* clause both apply; the empty chip value counts as no chip).
C2_FilterIsConjunction ==
    pc = "done" =>
        \A i \in 1..Len(notes) :
            InArray(filtered, notes[i]) <=>
                /\ ClaimActiveTag(notes[i])
                /\ ClaimQueryTag(notes[i])
                /\ ClaimFreeText(notes[i])

\* a call with a chip, a tag: clause and free text that keeps one note and
\* drops another
C2_Witness ==
    /\ pc = "done"
    /\ Truthy(activeTag) /\ activeTag # AllTag
    /\ parseSearchQuery(query).tag # Null
    /\ parseSearchQuery(query).text # <<>>
    /\ filtered # <<>>
    /\ Len(filtered) < Len(notes)

\* C3: every returned note satisfies the free-text predicate, and a note that
\* passes both tag predicates is left out only when the free-text predicate
\* fails; the predicate is true for every note when the free text is empty.
C3_FreeTextPredicate ==
    pc = "done" =>
        \A i \in 1..Len(notes) :
            /\ InArray(filtered, notes[i]) => ClaimFreeText(notes[i])
            /\ (/\ ~InArray(filtered, notes[i])
                /\ ClaimActiveTag(notes[i])
                /\ ClaimQueryTag(notes[i])) => ~ClaimFreeText(notes[i])

\* a call without any tag constraint whose free text keeps the note titled "B"
\* (found as "b" in the lower-cased haystack) and drops the other note
C3_Witness ==
    /\ pc = "done"
    /\ activeTag = AllTag
    /\ parseSearchQuery(query).tag = Null
    /\ parseSearchQuery(query).text = <<"B">>
    /\ Len(notes) = 2
    /\ Len(filtered) = 1
    /\ TitleOf(filtered[1]) = <<"B">>

\* sub is a subsequence of full: its elements are elements of full, taken at
\* strictly increasing positions
IsSubsequence(sub, full) ==
    \E f \in [1..Len(sub) -> 1..Len(full)] :
        /\ \A k \in 1..Len(sub) : sub[k] = full[f[k]]
        /\ \A k \in 1..Len(sub), l \in 1..Len(sub) : k < l => f[k] < f[l]

\* C4: the call leaves the input collection as it was and returns a
\* subsequence of it.
C4_FilterSubsequence ==
    [][pc = "ready" /\ pc' = "done" =>
          /\ notes' = notes
          /\ IsSubsequence(filtered', notes)]_vars

\* a call that returned two notes
C4_Witness ==
    /\ pc = "done"
    /\ Len(notes) = 2
    /\ Len(filtered) = 2

----------------------------------------------------------------------------
(* Specification SpecSort: sortNotesByUpdatedAtDesc on every collection.   *)

InitSort ==
    /\ pc = "ready"
    /\ notes \in NoteArrays(SortShapes, MaxNotes)
    /\ dateParseZero \in {NaN, Y2K}
    /\ sorted = NoResult
    /\ activeTag = Null /\ filtered = NoResult
    /\ IdleParse /\ IdleHighlight /\ IdleLifecycle /\ IdleApp

DoSort ==
    /\ pc = "ready"
    /\ \E result \in sortNotesByUpdatedAtDesc(notes, dateParseZero) :
          /\ sorted' = result
          /\ notes' = InputAfterSort(notes, result)
    /\ pc' = "done"
    /\ UNCHANGED <<query, parsed, text, needle, segments, activeTag, filtered,
                   dateParseZero>>
    /\ UNCHANGED lifecycleVars
    /\ UNCHANGED appVars

NextSort == DoSort

SpecSort == InitSort /\ [][NextSort]_vars

\* the timestamp string parses
Parseable(v) == DateParse(v) # NaN

\* the field f of n is present and parseable
HasTime(n, f) == Has(n, f) /\ Parseable(n[f])

\* the note has an effective timestamp: updatedAt when present and parseable,
\* otherwise createdAt when that is
HasEffective(n) == HasTime(n, "updatedAt") \/ HasTime(n, "createdAt")

Effective(n) ==
    IF HasTime(n, "updatedAt") THEN DateParse(n.updatedAt)
    ELSE IF HasTime(n, "createdAt") THEN DateParse(n.createdAt)
    ELSE EpochZero

\* the position of the note with this id in the array
PositionOf(arr, id) == CHOOSE k \in 1..Len(arr) : arr[k].id = id

Before(arr, a, b) == PositionOf(arr, a.id) < PositionOf(arr, b.id)

\* C5: a note with the larger effective timestamp comes first, the effective
\* timestamp being updatedAt when present and parseable and otherwise createdAt.
C5_EffectiveOrder ==
    pc = "done" =>
        \A i \in 1..Len(notes), j \in 1..Len(notes) :
            (/\ HasEffective(notes[i]) /\ HasEffective(notes[j])
             /\ Effective(notes[i]) > Effective(notes[j]))
                => Before(sorted, notes[i], notes[j])

\* C6: a note without any parseable timestamp has the key epoch zero and is
\* placed after every note that has an effective timestamp.
C6_NoTimestampLast ==
    pc = "done" =>
        \A i \in 1..Len(notes) :
            ~HasEffective(notes[i]) =>
                /\ NoteTime(notes[i], dateParseZero) = EpochZero
                /\ \A j \in 1..Len(notes) :
                      HasEffective(notes[j]) => Before(sorted, notes[j], notes[i])

\* C7: two notes with equal effective timestamps keep their input order.
C7_Stable ==
    pc = "done" =>
        \A i \in 1..Len(notes), j \in 1..Len(notes) :
            (i < j /\ Effective(notes[i]) = Effective(notes[j]))
                => Before(sorted, notes[i], notes[j])

\* b holds the elements of a, each as often as a does
IsPermutation(a, b) ==
    /\ Len(a) = Len(b)
    /\ \A x \in {a[i] : i \in 1..Len(a)} \cup {b[i] : i \in 1..Len(b)} :
          Cardinality({i \in 1..Len(a) : a[i] = x})
              = Cardinality({i \in 1..Len(b) : b[i] = x})

\* C8: the call returns a permutation of its input and leaves the input
\* sequence in its original order.
C8_SortPermutationNoMutation ==
    [][pc = "ready" /\ pc' = "done" =>
          /\ notes' = notes
          /\ IsPermutation(sorted', notes)]_vars

\* a call that returned the notes in another order than it was given
C8_Witness ==
    /\ pc = "done"
    /\ Len(notes) >= 2
    /\ sorted # notes

----------------------------------------------------------------------------
(* Specification SpecLifecycle: notes are created and touched while the    *)
(* clock runs.                                                             *)

InitLifecycle ==
    /\ pc = "ready"
    /\ clock = 1
    /\ made = <<>>
    /\ hist = <<>>
    /\ call = NoCall
    /\ IdleParse /\ IdleHighlight /\ IdleNotes /\ IdleSort /\ IdleApp

\* what the clock may read a moment after it read `clock`
LaterReads == clock..Min(clock + 1, MaxClock)

\* the clock advances by itself
Tick ==
    /\ clock < MaxClock
    /\ clock' = clock + 1
    /\ UNCHANGED <<made, hist, call>>
    /\ UNCHANGED engineVars
    /\ UNCHANGED appVars

\* a call of createEmptyNote(); the clock is read twice and Math.random once
CreateNote ==
    /\ Len(made) < MaxMade
    /\ \E tId \in LaterReads, r \in RandomValues :
          LET note == createEmptyNote(clock, tId, r)
          IN  /\ made' = Append(made, note)
              /\ hist' = Append(hist, [id |-> note.id, createdAt |-> note.createdAt,
                                       lastTouch |-> 0])
              /\ call' = [fn |-> "createEmptyNote", input |-> Null, inputAfter |-> Null,
                          output |-> note, from |-> clock, to |-> tId]
              /\ clock' = tId
    /\ UNCHANGED engineVars
    /\ UNCHANGED appVars

\* a call of updateNoteTimestamps on a note the application made; the result
\* takes the note's place in the collection
TouchNote ==
    /\ \E i \in 1..Len(made) :
          LET out == updateNoteTimestamps(made[i], clock, clock)
          IN  /\ made' = [made EXCEPT ![i] = out]
              /\ hist' = [hist EXCEPT ![i].lastTouch = clock]
              /\ call' = [fn |-> "updateNoteTimestamps", input |-> made[i],
                          inputAfter |-> InputAfterTouch(made[i], out),
                          output |-> out, from |-> clock, to |-> clock]
    /\ UNCHANGED clock
    /\ UNCHANGED engineVars
    /\ UNCHANGED appVars

\* a call of updateNoteTimestamps on a note loaded from a store; with a falsy
\* createdAt the clock is read twice
TouchLoaded ==
    /\ \E n \in LoadedNotes, t2 \in LaterReads :
          LET out == updateNoteTimestamps(n, clock, t2)
          IN  /\ HasCreatedAt(n) => t2 = clock
              /\ call' = [fn |-> "updateNoteTimestamps", input |-> n,
                          inputAfter |-> InputAfterTouch(n, out),
                          output |-> out, from |-> clock, to |-> t2]
              /\ clock' = t2
    /\ UNCHANGED <<made, hist>>
    /\ UNCHANGED engineVars
    /\ UNCHANGED appVars

NextLifecycle == Tick \/ CreateNote \/ TouchNote \/ TouchLoaded

SpecLifecycle == InitLifecycle /\ [][NextLifecycle]_vars

\* C17: for every note createEmptyNote made, after any calls of
\* updateNoteTimestamps on it under the advancing clock: createdAt is the
\* value given at creation, updatedAt is not before createdAt, no step
\* lowers updatedAt, and a touch at an instant later than the note's
\* previous touch gives a strictly later updatedAt.
C17_TimestampLifecycle ==
    [][\A i \in 1..Len(made') :
          /\ made'[i].createdAt = hist'[i].createdAt
          /\ DateParse(made'[i].createdAt) # NaN
          /\ DateParse(made'[i].updatedAt) >= DateParse(made'[i].createdAt)
          /\ i <= Len(made) =>
                /\ DateParse(made'[i].updatedAt) >= DateParse(made[i].updatedAt)
                /\ (/\ hist[i].lastTouch # 0
                    /\ hist'[i].lastTouch > hist[i].lastTouch)
                      => DateParse(made'[i].updatedAt) > DateParse(made[i].updatedAt)
      ]_vars

\* a note made at the first instant and touched at two later, distinct ones
C17_Witness ==
    /\ Len(made) >= 1
    /\ call.fn = "updateNoteTimestamps"
    /\ call.input = [made[1] EXCEPT !.updatedAt = toISOString(2)]
    /\ made[1].createdAt = toISOString(1)
    /\ made[1].updatedAt = toISOString(3)
    /\ hist[1].lastTouch = 3


\* C18: the note updateNoteTimestamps returns has updatedAt = the current
\* time, createdAt = the input's createdAt when the input has one (a
\* non-empty value) and the current time otherwise, and every other field of
\* the input, id, title, body and tags among them, with the input's value;
\* the input object is the same after the call.
C18_TouchFrame ==
    call.fn = "updateNoteTimestamps" =>
        /\ call.output.updatedAt = toISOString(call.to)
        /\ call.output.createdAt
              = (IF "createdAt" \in DOMAIN call.input /\ call.input.createdAt # ""
                 THEN call.input.createdAt
                 ELSE toISOString(call.from))
        /\ DOMAIN call.output = DOMAIN call.input \cup {"createdAt", "updatedAt"}
        /\ \A f \in DOMAIN call.input \ {"createdAt", "updatedAt"} :
              call.output[f] = call.input[f]
        /\ call.inputAfter = call.input

\* a touch of a loaded note with tags and no createdAt, during which the
\* clock moved on: createdAt is backfilled, the tags are carried over
C18_Witness ==
    /\ call.fn = "updateNoteTimestamps"
    /\ "createdAt" \notin DOMAIN call.input
    /\ call.output.tags = << <<"a">>, <<"B">> >>
    /\ call.output.createdAt = toISOString(2)
    /\ call.output.updatedAt = toISOString(3)

\* C19: the notes createEmptyNote made have pairwise distinct ids, and each
\* still has the id it was made with.
C19_UniqueImmutableIds ==
    /\ \A i \in 1..Len(made), j \in 1..Len(made) :
          i # j => made[i].id # made[j].id
    /\ \A i \in 1..Len(made) : made[i].id = hist[i].id

\* C20: the note createEmptyNote returns has the title "Untitled note", an
\* empty body, no tags, and createdAt = updatedAt = the time at the call.
C20_EmptyNoteDefaults ==
    call.fn = "createEmptyNote" =>
        /\ call.output.title = UntitledNote
        /\ call.output.body = <<>>
        /\ call.output.tags = <<>>
        /\ call.output.createdAt = toISOString(call.from)
        /\ call.output.updatedAt = call.output.createdAt

\* a creation during which the clock moved on between `new Date()` and the
\* Date.now() of the id
C20_Witness ==
    /\ call.fn = "createEmptyNote"
    /\ call.from = 2
    /\ call.to = 3
    /\ call.output.createdAt = toISOString(2)
    /\ call.output.id[1] = "3"

----------------------------------------------------------------------------
(* Specification SpecVisible: the list of the sidebar, filter then sort,   *)
(* next to sort then filter.                                               *)

\* notes with tags and timestamps, after the seeds of the App tests, and two
\* the sort cannot place: an unreadable updatedAt, no timestamp at all
VisibleShapes ==
    { [title |-> <<"a">>, tags |-> << <<"a">> >>,
       updatedAt |-> "2025-01-01T00:00:00.000Z"],
      [title |-> <<"B">>, tags |-> << <<"a">> >>,
       updatedAt |-> "2025-01-02T00:00:00.000Z"],
      [title |-> <<"a">>, tags |-> <<>>,
       updatedAt |-> "2025-01-02T00:00:00.000Z"],
      [title |-> <<"B">>, tags |-> <<>>, updatedAt |-> "not-a-date"],
      [title |-> <<"a">>, tags |-> << <<"a">> >>] }

\* App.visibleNotes: sortNotesByUpdatedAtDesc(filterNotes(notes, query, activeTag))
visibleNotes(ns, qry, active, zero) ==
    sortNotesByUpdatedAtDesc(filterNotes(ns, qry, active), zero)

InitVisible ==
    /\ pc = "ready"
    /\ notes \in NoteArrays(VisibleShapes, MaxNotes)
    /\ query \in {<<>>, <<"a">>}
    /\ activeTag \in {AllTag, <<"a">>}
    /\ dateParseZero \in {NaN, Y2K}
    /\ filtered = NoResult
    /\ sorted = NoResult
    /\ parsed = NoResult
    /\ IdleHighlight /\ IdleLifecycle /\ IdleApp

\* both compositions are evaluated on the same arguments: `sorted` takes
\* filter-then-sort, `filtered` takes sort-then-filter
DoVisible ==
    /\ pc = "ready"
    /\ \E v \in visibleNotes(notes, query, activeTag, dateParseZero),
          w \in sortNotesByUpdatedAtDesc(notes, dateParseZero) :
          /\ sorted' = v
          /\ filtered' = filterNotes(w, query, activeTag)
    /\ pc' = "done"
    /\ UNCHANGED <<query, parsed, text, needle, segments, notes, activeTag,
                   dateParseZero>>
    /\ UNCHANGED lifecycleVars
    /\ UNCHANGED appVars

NextVisible == DoVisible

SpecVisible == InitVisible /\ [][NextVisible]_vars

\* C21: for every collection, query and chip, sorting the filtered notes
\* gives the same sequence as filtering the sorted notes.
C21_FilterSortCommute ==
    pc = "done" => sorted = filtered

----------------------------------------------------------------------------
(* Specification SpecApi: a NotesApi client built from every environment.  *)

InitApi ==
    /\ pc = "ready"
    /\ env \in [REACT_APP_API_BASE : EnvValues, REACT_APP_BACKEND_URL : BackendValues]
    /\ app = <<>>
    /\ pending = <<>>
    /\ log = <<>>
    /\ IdleParse /\ IdleHighlight /\ IdleNotes /\ IdleSort /\ IdleLifecycle

ApiMethods == {"listNotes", "upsertNote", "deleteNote"}

\* new NotesApi() and one call of one of its methods
ClientCall ==
    /\ pc = "ready"
    /\ LET base == resolveApiBase(env)
       IN  \E fn \in ApiMethods, outcome \in FetchOutcomes(base) :
              log' = [fn |-> fn, base |-> base, hasApi |-> hasApi(base)]
                        @@ ApiCall(base, outcome)
    /\ pc' = "done"
    /\ UNCHANGED <<env, app, pending>>
    /\ UNCHANGED <<query, parsed, text, needle, segments, notes, activeTag,
                   filtered, sorted, dateParseZero>>
    /\ UNCHANGED lifecycleVars

NextApi == ClientCall

SpecApi == InitApi /\ [][NextApi]_vars

\* the value the environment configures: the first variable that is not blank
ConfiguredBase ==
    IF EnvTrim(env.REACT_APP_API_BASE) # <<>> THEN EnvTrim(env.REACT_APP_API_BASE)
    ELSE EnvTrim(env.REACT_APP_BACKEND_URL)

\* C24: when the configured base is not an absolute URL with a scheme,
\* hasApi() is false and listNotes, upsertNote and deleteNote return null,
\* issue no request and do not throw.
C24_InvalidBaseIsNoApi ==
    (pc = "done" /\ ~IsHttpUrl(ConfiguredBase)) =>
        /\ ~log.hasApi
        /\ ~log.fetched
        /\ log.result = "null"

----------------------------------------------------------------------------
(* Specification SpecApp: the App component from its mount on an empty or  *)
(* a seeded store.  Every user event, timer and request completion is one  *)
(* action: the handler's state updates, then the renders and effects they  *)
(* cause (Settle).  The sidebar's open flag is presentation only and is    *)
(* left out.  `pending` holds the requests in flight, `log` tells the last *)
(* operation of the App (its name, the save attempt it belongs to, its     *)
(* outcome) and the number of steps taken.  The search box stays empty:    *)
(* the hook that debounces it, hooks/useDebouncedValue, is not available.  *)

Base == resolveApiBase(env)

NoToast == [null |-> TRUE]

\* lastSavedAtRef before the first save
NeverSaved == "null"

\* the search box and its parse, the same at every render
SearchBox == <<>>
ParsedSearch == parseSearchQuery(SearchBox)

\* filterNotes(notes, debouncedQuery, activeTag) of the App's visibleNotes
FilterVisible(ns, active) ==
    FilterLoop(ns, ToLowerCase(Trim(ParsedSearch.text)), ParsedSearch.tag, active, <<>>)

\* the ids of the notes the sidebar lists
VisibleIds ==
    LET shown == FilterVisible(app.notes, app.activeTag)
    IN  {shown[i].id : i \in 1..Len(shown)}

\* ["all", ...allTags] of the sidebar: the tags of all notes
TagChips ==
    {AllTag} \cup UNION {{app.notes[i].tags[j] : j \in 1..Len(app.notes[i].tags)}
                            : i \in 1..Len(app.notes)}

Logged(op, seq, ok) == [op |-> op, seq |-> seq, ok |-> ok, steps |-> log.steps + 1]

\* a request is sent only when the client has an API
Issue(r) == IF hasApi(Base) THEN pending \cup {r} ELSE pending

\* what localStorage holds under "notes.data.v1" at the start: nothing, or
\* one tagged note of an earlier session
StoredCollections ==
    { <<>>,
      << [id |-> <<"n", "1">>, title |-> <<"a">>, body |-> <<>>,
          tags |-> << <<"a">> >>,
          createdAt |-> toISOString(1), updatedAt |-> toISOString(1)] >> }

\* the state after the mount: on an empty store the mount effect makes the
\* note `first` and selects it, else it selects the first stored note; the
\* selection effect then loads the draft
MountedApp(stored, first) ==
    LET fresh == [notes |-> stored, selectedId |-> Null, activeTag |-> AllTag,
                  draftTitle |-> <<>>, draftBody |-> <<>>, draftTagsText |-> <<>>,
                  saveState |-> "saved", lastSavedAt |-> NeverSaved, toast |-> NoToast,
                  saveAttemptSeq |-> 0, autosaveTimer |-> FALSE]
    IN  IF stored = <<>>
        THEN Settle(fresh, [fresh EXCEPT !.notes = <<first>>, !.selectedId = first.id],
                    FALSE)
        ELSE Settle(fresh, [fresh EXCEPT !.selectedId = stored[1].id], FALSE)

InitApp ==
    /\ pc = "ready"
    /\ env \in AppEnvs
    /\ clock = 1
    /\ \E stored \in StoredCollections, r \in RandomValues :
          app = MountedApp(stored, createEmptyNote(1, 1, r))
    /\ pending = {}
    /\ log = [op |-> "mount", seq |-> 0, ok |-> TRUE, steps |-> 0]
    /\ made = <<>> /\ hist = <<>> /\ call = NoCall
    /\ IdleParse /\ IdleHighlight /\ IdleNotes /\ IdleSort

AppFrame ==
    /\ log.steps < MaxAppSteps
    /\ UNCHANGED <<pc, env, made, hist, call>>
    /\ UNCHANGED <<query, parsed, text, needle, segments, notes, activeTag,
                   filtered, sorted, dateParseZero>>

\* time passes between two events
TimePasses ==
    /\ clock < MaxClock
    /\ clock' = clock + 1
    /\ log' = Logged("timePasses", 0, TRUE)
    /\ UNCHANGED <<app, pending>>
    /\ AppFrame

\* onTitleChange={setDraftTitle}
EditTitle ==
    /\ selectedNote(app) # NoNote
    /\ \E v \in DraftTitles \ {app.draftTitle} :
          app' = Settle(app, [app EXCEPT !.draftTitle = v], FALSE)
    /\ log' = Logged("edit", 0, TRUE)
    /\ UNCHANGED <<clock, pending>>
    /\ AppFrame

\* onBodyChange={setDraftBody}
EditBody ==
    /\ selectedNote(app) # NoNote
    /\ \E v \in DraftBodies \ {app.draftBody} :
          app' = Settle(app, [app EXCEPT !.draftBody = v], FALSE)
    /\ log' = Logged("edit", 0, TRUE)
    /\ UNCHANGED <<clock, pending>>
    /\ AppFrame

\* onTagsTextChange={setDraftTagsText}
EditTagsText ==
    /\ selectedNote(app) # NoNote
    /\ \E v \in DraftTagsTexts \ {app.draftTagsText} :
          app' = Settle(app, [app EXCEPT !.draftTagsText = v], FALSE)
    /\ log' = Logged("edit", 0, TRUE)
    /\ UNCHANGED <<clock, pending>>
    /\ AppFrame

\* the 650 ms timeout of the autosave effect fires: applyDraftToSelectedNote
\* and persistNoteUpdate.  Without an API the await resolves at once; whether
\* React renders before the continuation depends on its scheduling.
AutosaveFires ==
    /\ app.autosaveTimer
    /\ LET now == clock IN
          LET timerGone == [app EXCEPT !.autosaveTimer = FALSE]
              started == PersistStart(timerGone, applyDraftToSelectedNote(app, now))
              seq == started.saveAttemptSeq
          IN  /\ clock' = now
              /\ IF hasApi(Base)
                 THEN /\ app' = Settle(app, started, TRUE)
                      /\ pending' = Issue([kind |-> "persist", seq |-> seq])
                 ELSE /\ \E batched \in BOOLEAN :
                            app' = IF batched
                                   THEN Settle(app, PersistEnd(started, seq, TRUE, now), TRUE)
                                   ELSE LET mid == Settle(app, started, TRUE)
                                        IN  Settle(mid, PersistEnd(mid, seq, TRUE, now), FALSE)
                      /\ pending' = pending
    /\ log' = Logged("autosave", app.saveAttemptSeq + 1, TRUE)
    /\ AppFrame

\* manualSave (the Save button, Ctrl/Cmd+S): a discrete event, rendered
\* before the continuation of the await
manualSave ==
    /\ selectedNote(app) # NoNote
    /\ LET now == clock IN
          LET started == showToast(PersistStart(app, applyDraftToSelectedNote(app, now)),
                                   "Saved", "success")
              seq == started.saveAttemptSeq
              mid == Settle(app, started, TRUE)
          IN  /\ clock' = now
              /\ IF hasApi(Base)
                 THEN /\ app' = mid
                      /\ pending' = Issue([kind |-> "persist", seq |-> seq])
                 ELSE /\ app' = Settle(mid, PersistEnd(mid, seq, TRUE, now), FALSE)
                      /\ pending' = pending
    /\ log' = Logged("manualSave", app.saveAttemptSeq + 1, TRUE)
    /\ AppFrame

\* the request of a save attempt ends: the rest of persistNoteUpdate
PersistEnds ==
    /\ \E r \in pending, outcome \in FetchOutcomes(Base) :
          LET ok == ApiCall(Base, outcome).result = "json"
              now == clock
          IN  /\ r.kind = "persist"
              /\ app' = Settle(app, PersistEnd(app, r.seq, ok, now), FALSE)
              /\ pending' = pending \ {r}
              /\ log' = Logged("persistEnds", r.seq, ok)
              /\ clock' = now
    /\ AppFrame

\* the request of createNote or deleteSelected ends: its failure is caught
\* and shown as a warning
SyncEnds ==
    /\ \E r \in pending, outcome \in FetchOutcomes(Base) :
          LET ok == ApiCall(Base, outcome).result = "json"
          IN  /\ r.kind # "persist"
              /\ app' = IF ok THEN app
                        ELSE showToast(app, SyncFailureMessage, "warning")
              /\ pending' = pending \ {r}
              /\ log' = Logged("syncEnds", 0, ok)
    /\ UNCHANGED clock
    /\ AppFrame

\* createNote (the New note button, Ctrl/Cmd+N)
createNote ==
    /\ \E tId \in LaterReads, r \in RandomValues :
          LET n == createEmptyNote(clock, tId, r)
              new == showToast([app EXCEPT !.notes = <<n>> \o app.notes,
                                           !.selectedId = n.id],
                               "New note created", "success")
          IN  /\ app' = Settle(app, new, FALSE)
              /\ clock' = tId
    /\ pending' = Issue([kind |-> "create", seq |-> 0])
    /\ log' = Logged("createNote", 0, TRUE)
    /\ AppFrame

\* deleteSelected (the Delete button)
deleteSelected ==
    /\ selectedNote(app) # NoNote
    /\ LET id == selectedNote(app).id
           remaining == SelectSeq(app.notes, LAMBDA n : n.id # id)
           nextId == IF remaining = <<>> THEN Null ELSE remaining[1].id
           new == showToast([app EXCEPT !.notes = remaining, !.selectedId = nextId],
                            "Note deleted", "info")
       IN  app' = Settle(app, new, FALSE)
    /\ pending' = Issue([kind |-> "delete", seq |-> 0])
    /\ log' = Logged("deleteSelected", 0, TRUE)
    /\ UNCHANGED clock
    /\ AppFrame

\* onSelect={(id) => setSelectedId(id)} on a note the sidebar lists
SelectNote ==
    /\ \E id \in VisibleIds \ {app.selectedId} :
          app' = Settle(app, [app EXCEPT !.selectedId = id], FALSE)
    /\ log' = Logged(IF app.autosaveTimer THEN "selectWhileDirty" ELSE "select", 0, TRUE)
    /\ UNCHANGED <<clock, pending>>
    /\ AppFrame

\* onActiveTagChange={setActiveTag} on a chip of the sidebar
SetActiveTag ==
    /\ \E t \in TagChips \ {app.activeTag} :
          app' = [app EXCEPT !.activeTag = t]
    /\ log' = Logged("setActiveTag", 0, TRUE)
    /\ UNCHANGED <<clock, pending>>
    /\ AppFrame

\* the 2200 ms timeout of showToast clears the toast
ToastTimeout ==
    /\ app.toast # NoToast
    /\ app' = [app EXCEPT !.toast = NoToast]
    /\ log' = Logged("toastTimeout", 0, TRUE)
    /\ UNCHANGED <<clock, pending>>
    /\ AppFrame

NextApp ==
    \/ TimePasses \/ EditTitle \/ EditBody \/ EditTagsText \/ AutosaveFires
    \/ manualSave \/ PersistEnds \/ SyncEnds \/ createNote \/ deleteSelected
    \/ SelectNote \/ SetActiveTag \/ ToastTimeout

SpecApp == InitApp /\ [][NextApp]_vars

\* C22: once the autosave has fired for the draft the user stopped editing,
\* no further save attempt is scheduled, and without an API (where the save
\* completes at once) the save state is 'saved'.
C22_AutosaveSettles ==
    log.op = "autosave" =>
        /\ ~app.autosaveTimer
        /\ ~hasApi(Base) => app.saveState = "saved"

WarningToast == [message |-> SyncFailureMessage, tone |-> "warning"]

\* the step is the end of the request of the latest save attempt, with outcome ok
LatestAttemptEnds(ok) ==
    /\ log'.steps = log.steps + 1
    /\ log'.op = "persistEnds"
    /\ log'.ok = ok
    /\ log'.seq = app.saveAttemptSeq

LocalOnly == env.REACT_APP_API_BASE = Null /\ env.REACT_APP_BACKEND_URL = Null

\* C25: with neither REACT_APP_API_BASE nor REACT_APP_BACKEND_URL set, no
\* request is ever in flight and the save state is never 'error'.
C25_LocalOnlyNoRequests ==
    LocalOnly => (pending = {} /\ app.saveState # "error")

C25_Witness ==
    /\ LocalOnly
    /\ log.op = "deleteSelected"
    /\ app.saveAttemptSeq > 0
    /\ Len(app.notes) > 0

\* the step is a run of the handler op
HandlerRuns(op) == log'.steps = log.steps + 1 /\ log'.op = op

\* C26: createNote adds exactly one entry to the list the sidebar shows, and
\* the new note is the first entry of that list and the selected note.
C26_NewNoteListedFirst ==
    [][HandlerRuns("createNote") =>
          LET before == FilterVisible(app.notes, app.activeTag)
              after == FilterVisible(app'.notes, app'.activeTag)
          IN  /\ Len(after) = Len(before) + 1
              /\ \A shown \in sortNotesByUpdatedAtDesc(after, NaN) :
                    shown[1].id = app'.notes[1].id
              /\ app'.selectedId = app'.notes[1].id]_vars

\* C27: whenever a note is selected and the save state is 'saved', the draft
\* (title, body, parsed tags) equals the stored content of the selected note.
C27_SavedMeansInSync ==
    (selectedNote(app) # NoNote /\ app.saveState = "saved") => ~isDirty(app)

\* the step is the end of the request of a save attempt that is no longer
\* the latest one
StaleAttemptEnds ==
    /\ log'.steps = log.steps + 1
    /\ log'.op = "persistEnds"
    /\ log'.seq # app.saveAttemptSeq

\* C28: the end of a save attempt that is not the latest one, whatever its
\* outcome, changes neither the save state nor lastSavedAt and shows no
\* toast; the success of the latest attempt sets 'saved' and lastSavedAt.
C28_OnlyLatestAttemptApplies ==
    [][/\ StaleAttemptEnds => app' = app
       /\ LatestAttemptEnds(TRUE) =>
             /\ app'.saveState = "saved"
             /\ app'.lastSavedAt = toISOString(clock')
             /\ app'.toast = app.toast]_vars

C28_Witness ==
    /\ log.op = "persistEnds"
    /\ log.seq < app.saveAttemptSeq
    /\ [kind |-> "persist", seq |-> app.saveAttemptSeq] \in pending

\* the collection without its i-th note
WithoutNote(ns, i) == SubSeq(ns, 1, i - 1) \o SubSeq(ns, i + 1, Len(ns))

\* C29: selectedId is the id of a note of the collection, or null, and null
\* only when the collection is empty; deleteSelected removes exactly the
\* selected note and selects the first remaining one.
C29_SelectionFollowsCollection ==
    [][/\ \/ \E i \in 1..Len(app'.notes) : app'.notes[i].id = app'.selectedId
          \/ app'.selectedId = Null /\ app'.notes = <<>>
       /\ HandlerRuns("deleteSelected") =>
             /\ \E i \in 1..Len(app.notes) :
                   /\ app.notes[i] = selectedNote(app)
                   /\ app'.notes = WithoutNote(app.notes, i)
             /\ app'.selectedId = IF app'.notes = <<>> THEN Null
                                  ELSE app'.notes[1].id]_vars

\* C30: selecting another note while the draft is dirty and the autosave
\* timer is pending cancels the timer and loads the selected note into the
\* draft; no note of the collection changes and no save is started.
C30_SwitchDiscardsDraft ==
    [][(HandlerRuns("selectWhileDirty") /\ app.saveState = "dirty") =>
          /\ ~app'.autosaveTimer
          /\ app'.notes = app.notes
          /\ app'.saveAttemptSeq = app.saveAttemptSeq
          /\ pending' = pending
          /\ app'.selectedId # app.selectedId
          /\ app'.draftTitle = selectedNote(app').title
          /\ app'.draftBody = selectedNote(app').body
          /\ parsedDraftTags(app') = selectedNote(app').tags
          /\ app'.saveState = "saved"]_vars

C30_Witness ==
    /\ log.op = "selectWhileDirty"
    /\ Len(app.notes) = 2
    /\ app.notes[1].id # app.notes[2].id
    /\ ~app.autosaveTimer
    /\ app.draftTitle = selectedNote(app).title

====
